---------------------------- MODULE Spec2Model ----------------------------
(***************************************************************************)
(* The tiered AR viewer page (the AR component with the performance        *)
(* selector, asset fallback chain, FPS monitor and tap-to-place handler).  *)
(*                                                                         *)
(* The React state of the component, the DOM residue it leaves in          *)
(* document.body, and the variables of one startAR invocation (the         *)
(* closure: scene, reticle, model, loader chain, hit-test bookkeeping,     *)
(* frame counter) are the state.  Every handler, promise continuation and  *)
(* callback of the component is one action.                                *)
(*                                                                         *)
(* Lengths are integers in hundredths of a unit along one axis; a          *)
(* transform matrix is [pos, rot] with rot \in {1, -1} (the facing).       *)
(* Scales and pixel ratios are in hundredths (0.25 -> 25, 1.5 -> 150).     *)
(*                                                                         *)
(* Scope: Spec follows the component from mount through one startAR        *)
(* invocation, including everything that still runs after Back or after    *)
(* the XR session has ended.  bodyButtons counts the AR buttons in          *)
(* document.body, starts the startAR invocations.                          *)
(***************************************************************************)
EXTENDS Integers, Sequences, FiniteSets

(* ------------------------------ bounds -------------------------------- *)

\* number of distinct surface / controller poses the environment delivers
NumPoses == 2
\* longest hit-test result list a frame carries
MaxHits == 2
\* frames counted in one timing window before the window must elapse
MaxFrameCount == 2
\* FPS-triggered quality reductions followed in one session
MaxDowngrades == 2
\* bounding-box centre of the loaded asset (model-local, hundredths)
AssetCenter == 40
\* largest bounding dimension of the asset as authored (hundredths)
AssetSize == 200
\* granularity of the clock and the last instant followed (milliseconds)
TickMs == 100
MaxTime == 2000
\* resize events followed in one session
MaxResizes == 3
\* startAR invocations followed in one page
MaxStarts == 3

(* ------------------------- program constants -------------------------- *)

FpsThreshold == 20
LowScale == 25
NormalScale == 30
MediumPixelRatioCap == 150
LowPixelRatioCap == 100
FrontOffset == -100
WindowMs == 1000
ResizeDelayMs == 200

Modes == {"auto", "low", "medium", "high"}

MsgNoWebXR == "WebXR not supported in this browser"
MsgCheckError == "Error checking AR support"
MsgSimplified == "Full AR not supported. Using simplified mode."
MsgCouldNotLoad == "Could not load 3D model. Please try again later."
MsgStartError == "Error starting AR: Canvas element not found"

PathLow == "/models/result_low.gltf"
PathFull == "/models/result.gltf"

fallbackPaths == << "/models/result.gltf", "/result.gltf", "/models/fallback.gltf" >>

\* window.devicePixelRatio || 1, in hundredths
DevicePixelRatios == {200}

Identity == [pos |-> 0, rot |-> 1]
Pose(k) == [pos |-> 100 * k, rot |-> IF k % 2 = 1 THEN 1 ELSE -1]
Poses == {Pose(k) : k \in 1..NumPoses}
\* hit.getPose(referenceSpace) may return null
NoPose == [pos |-> 0, rot |-> 0]
HitLists == UNION {[1..n -> Poses \cup {NoPose}] : n \in 0..MaxHits}

NoModel == [loaded |-> FALSE, visible |-> FALSE, position |-> 0,
            scale |-> 100, material |-> "original"]

VARIABLES
    \* React state (useState)
    arSupported, arStarted, errorMessage, isLoading, performanceMode,
    isLowEndDevice,
    \* checkARSupport promise chain: "immersive", "inline" or "done"
    supportCheck,
    \* startAR invocation: "idle", "awaiting", "running", "failed"
    pc,
    \* performanceMode / isLowEndDevice as captured by the invocation
    tier, sessionLowEnd,
    \* renderer and scene
    directionalLight, pixelRatio, antialias, animationLoop,
    \* document and window
    arButtonInBody, bodyButtons, resizeListener, dracoDisposed,
    \* reticle mesh
    reticle,
    \* model, modelPlaced, number of models added to the scene
    model, modelPlaced, sceneModels,
    \* loader chain: "none", "pending", "loaded", "failed"
    loadState, loadIndex, attempts,
    \* hit-test bookkeeping
    hitTestSource, hitTestSourceRequested, htRequest, endListeners,
    \* the XR session of this invocation's renderer
    xrActive,
    \* FPS monitor
    frameCount, downgrades,
    \* event stamp: flips at every select event delivered to onSelect, so
    \* that a select that changes nothing is still a step
    selectStamp,
    \* event stamp: flips at every startAR call that returns at its first
    \* line, and is cleared when a call proceeds
    startStamp,
    \* startAR invocations that proceeded
    starts,
    \* performance.now()
    now,
    \* FPS monitor: start of the timing window, the last sample, and the
    \* calls of updatePerformanceMode with the argument of the last one
    lastTime, fps, policyCalls, policyArg,
    \* handleResize: the due times of the timers it has pending, the counts
    \* of resize events and of camera / renderer size updates, and the
    \* instant of the last event
    resizeTimeout, resizeEvents, lastResize, resizeUpdates

reactVars == << arSupported, arStarted, errorMessage, isLoading,
                performanceMode, isLowEndDevice, supportCheck >>
rendererVars == << directionalLight, pixelRatio, antialias, animationLoop >>
domVars == << arButtonInBody, bodyButtons, resizeListener, dracoDisposed >>
modelVars == << model, modelPlaced, sceneModels >>
loadVars == << loadState, loadIndex, attempts >>
hitVars == << hitTestSource, hitTestSourceRequested, htRequest, endListeners >>
fpsVars == << frameCount, downgrades >>
quietVars == << selectStamp, startStamp, starts >>
windowVars == << lastTime, fps, policyCalls, policyArg >>
resizeVars == << resizeTimeout, resizeEvents, lastResize, resizeUpdates >>
timeVars == << now, windowVars, resizeVars >>

vars == << arSupported, arStarted, errorMessage, isLoading, performanceMode,
           isLowEndDevice, supportCheck, pc, tier, sessionLowEnd,
           directionalLight, pixelRatio, antialias, animationLoop,
           arButtonInBody, bodyButtons, resizeListener, dracoDisposed,
           reticle, model, modelPlaced, sceneModels,
           loadState, loadIndex, attempts,
           hitTestSource, hitTestSourceRequested, htRequest, endListeners,
           xrActive, frameCount, downgrades, selectStamp, startStamp, starts,
           now, lastTime, fps, policyCalls, policyArg,
           resizeTimeout, resizeEvents, lastResize, resizeUpdates >>

Min(a, b) == IF a < b THEN a ELSE b


(* --------------------------- pure helpers ----------------------------- *)

\* Vector3.applyMatrix4 along the modelled axis
applyMatrix4(v, m) == m.rot * v + m.pos

\* Vector3.setFromMatrixPosition
setFromMatrixPosition(m) == m.pos

\* primary path chosen at session start
modelPath(lowEnd) == IF lowEnd THEN PathLow ELSE PathFull

\* renderer.setPixelRatio argument at session start
startPixelRatio(mode, dpr) ==
    IF mode = "low" THEN Min(dpr, LowPixelRatioCap)
    ELSE IF mode = "medium" THEN Min(dpr, MediumPixelRatioCap)
    ELSE dpr

\* faulty variant of optimizeModel: the tier is ignored for the scale
optimizeModelOneScale(m, mode) ==
    LET center == m.position + (m.scale * AssetCenter) \div 100
    IN  [m EXCEPT !.position = m.position - center,
                  !.scale = NormalScale,
                  !.material = IF mode = "low" THEN "basic" ELSE m.material]

\* faulty variant of addsDirectionalLight: the light is added in every tier
addsDirectionalLightAlways(mode) == TRUE

\* the lighting set-up adds the directional light except in low tier
addsDirectionalLight(mode) == mode # "low"

\* optimizeModel: recentre on the bounding-box centre of the model as it is
\* now transformed, rescale and (low only) swap in the basic material.
\* `mode` is the performanceMode the enclosing startAR invocation captured.
optimizeModel(m, mode) ==
    LET center == m.position + (m.scale * AssetCenter) \div 100
    IN  [m EXCEPT !.position = m.position - center,
                  !.scale = IF mode = "low" THEN LowScale ELSE NormalScale,
                  !.material = IF mode = "low" THEN "basic" ELSE m.material]

\* the scale optimizeModel applies for a tier
tierScale(mode) == IF mode = "low" THEN LowScale ELSE NormalScale

\* largest dimension of the model's bounding box under its current scale
largestDimension(m) == (m.scale * AssetSize) \div 100

\* faulty variant of onSelect: the handler does not test that a model is
\* loaded
onSelectWithoutModel(m, placed, ret, mode, controller) ==
    IF ~ret.visible \/ mode = "low"
    THEN IF mode = "low" /\ ~placed
         THEN [model |-> [m EXCEPT !.position = applyMatrix4(FrontOffset, controller),
                                   !.visible = TRUE],
               placed |-> TRUE]
         ELSE IF ret.visible /\ ~placed
         THEN [model |-> [m EXCEPT !.position = setFromMatrixPosition(ret.matrix),
                                   !.visible = TRUE],
               placed |-> TRUE]
         ELSE IF placed
         THEN [model |-> [m EXCEPT !.visible = IF mode # "low" THEN FALSE ELSE m.visible],
               placed |-> FALSE]
         ELSE [model |-> m, placed |-> placed]
    ELSE [model |-> m, placed |-> placed]

\* faulty variant of onSelect: the unplace branch hides the asset in every
\* tier (the low-tier exemption is dropped)
onSelectHidesAlways(m, placed, ret, mode, controller) ==
    IF m.loaded /\ (~ret.visible \/ mode = "low")
    THEN IF mode = "low" /\ ~placed
         THEN [model |-> [m EXCEPT !.position = applyMatrix4(FrontOffset, controller),
                                   !.visible = TRUE],
               placed |-> TRUE]
         ELSE IF ret.visible /\ ~placed
         THEN [model |-> [m EXCEPT !.position = setFromMatrixPosition(ret.matrix),
                                   !.visible = TRUE],
               placed |-> TRUE]
         ELSE IF placed
         THEN [model |-> [m EXCEPT !.visible = FALSE], placed |-> FALSE]
         ELSE [model |-> m, placed |-> placed]
    ELSE [model |-> m, placed |-> placed]

\* faulty variant of onSelect: the low-tier placement marks the asset placed
\* without showing it
onSelectPlacesHidden(m, placed, ret, mode, controller) ==
    IF m.loaded /\ (~ret.visible \/ mode = "low")
    THEN IF mode = "low" /\ ~placed
         THEN [model |-> [m EXCEPT !.position = applyMatrix4(FrontOffset, controller)],
               placed |-> TRUE]
         ELSE IF ret.visible /\ ~placed
         THEN [model |-> [m EXCEPT !.position = setFromMatrixPosition(ret.matrix),
                                   !.visible = TRUE],
               placed |-> TRUE]
         ELSE IF placed
         THEN [model |-> [m EXCEPT !.visible = IF mode # "low" THEN FALSE ELSE m.visible],
               placed |-> FALSE]
         ELSE [model |-> m, placed |-> placed]
    ELSE [model |-> m, placed |-> placed]

\* onSelect: the new (model, modelPlaced) pair
onSelect(m, placed, ret, mode, controller) ==
    IF m.loaded /\ (~ret.visible \/ mode = "low")
    THEN IF mode = "low" /\ ~placed
         THEN [model |-> [m EXCEPT !.position = applyMatrix4(FrontOffset, controller),
                                   !.visible = TRUE],
               placed |-> TRUE]
         ELSE IF ret.visible /\ ~placed
         THEN [model |-> [m EXCEPT !.position = setFromMatrixPosition(ret.matrix),
                                   !.visible = TRUE],
               placed |-> TRUE]
         ELSE IF placed
         THEN [model |-> [m EXCEPT !.visible = IF mode # "low" THEN FALSE ELSE m.visible],
               placed |-> FALSE]
         ELSE [model |-> m, placed |-> placed]
    ELSE [model |-> m, placed |-> placed]

\* the guard of updatePerformanceMode
shouldReduceQuality(currentFps, mode) ==
    currentFps < FpsThreshold /\ mode # "low"

\* faulty variant of hitTestReticle: takes the last result, not the first
hitTestReticleLast(ret, hitTestResults) ==
    IF Len(hitTestResults) > 0
    THEN LET pose == hitTestResults[Len(hitTestResults)]
         IN  IF pose # NoPose
             THEN [visible |-> TRUE, matrix |-> pose]
             ELSE ret
    ELSE [ret EXCEPT !.visible = FALSE]

\* the reticle after the hit-test query of one frame
hitTestReticle(ret, hitTestResults) ==
    IF Len(hitTestResults) > 0
    THEN LET pose == hitTestResults[1]
         IN  IF pose # NoPose
             THEN [visible |-> TRUE, matrix |-> pose]
             ELSE ret
    ELSE [ret EXCEPT !.visible = FALSE]

\* the frame enters the hit-test branch
hitTestBranch(hasFrame, mode) == hasFrame /\ mode # "low"

\* faulty variant of hitTestRequestDue: the flag is not consulted
hitTestRequestDueAlways(requested) == TRUE

\* the hit-test source is requested once: `if (!hitTestSourceRequested)`
hitTestRequestDue(requested) == ~requested

\* faulty variant of hasFallback: gives up one fallback early
hasFallbackShort(index) == index < Len(fallbackPaths) - 1

\* error callback of loadModel: is there a fallback left for this index
hasFallback(index) == index < Len(fallbackPaths)

\* faulty variant of nextFallback: always retries the first fallback
nextFallbackFirst(index) == fallbackPaths[1]

\* error callback of loadModel: the path tried next (fallbackPaths[index], 0-based)
nextFallback(index) == fallbackPaths[index + 1]

\* faulty variant of nextIndex: the index is not advanced
nextIndexSame(index) == index

\* error callback of loadModel: the index passed on with the next path
nextIndex(index) == index + 1

(* ------------------------------- Init --------------------------------- *)

\* The state after mount: checkDevicePerformance has run, checkARSupport
\* has either found no navigator.xr or issued the immersive-ar query.
Init ==
    /\ \E lowEnd \in BOOLEAN :
          /\ isLowEndDevice = lowEnd
          /\ performanceMode = IF lowEnd THEN "low" ELSE "medium"
    /\ \E xr \in BOOLEAN :
          /\ supportCheck = IF xr THEN "immersive" ELSE "done"
          /\ errorMessage = IF xr THEN "" ELSE MsgNoWebXR
    /\ arSupported = FALSE
    /\ arStarted = FALSE
    /\ isLoading = FALSE
    /\ pc = "idle"
    /\ tier = "auto"
    /\ sessionLowEnd = FALSE
    /\ directionalLight = FALSE
    /\ pixelRatio = 100
    /\ antialias = FALSE
    /\ animationLoop = FALSE
    /\ arButtonInBody = FALSE
    /\ bodyButtons = 0
    /\ resizeListener = FALSE
    /\ dracoDisposed = FALSE
    /\ reticle = [visible |-> FALSE, matrix |-> Identity]
    /\ model = NoModel
    /\ modelPlaced = FALSE
    /\ sceneModels = 0
    /\ loadState = "none"
    /\ loadIndex = 0
    /\ attempts = << >>
    /\ hitTestSource = FALSE
    /\ hitTestSourceRequested = FALSE
    /\ htRequest = "none"
    /\ endListeners = 0
    /\ xrActive = FALSE
    /\ frameCount = 0
    /\ downgrades = 0
    /\ selectStamp = 0
    /\ startStamp = 0
    /\ starts = 0
    /\ now = 0
    /\ lastTime = 0
    /\ fps = 0
    /\ policyCalls = 0
    /\ policyArg = 0
    /\ resizeTimeout = {}
    /\ resizeEvents = 0
    /\ lastResize = 0
    /\ resizeUpdates = 0

closureVars == << pc, tier, sessionLowEnd, directionalLight, pixelRatio,
                  antialias, animationLoop, arButtonInBody, bodyButtons,
                  resizeListener, dracoDisposed, reticle, model, modelPlaced,
                  sceneModels, loadState, loadIndex, attempts, hitTestSource,
                  hitTestSourceRequested, htRequest, endListeners, xrActive,
                  frameCount, downgrades, selectStamp, startStamp, starts >>

(* ----------------------- capability detection ------------------------- *)

\* isSessionSupported('immersive-ar') resolves
ResolveImmersive ==
    /\ supportCheck = "immersive"
    /\ \E supported \in BOOLEAN :
          /\ arSupported' = supported
          /\ supportCheck' = IF supported THEN "done" ELSE "inline"
    /\ UNCHANGED << arStarted, errorMessage, isLoading, performanceMode,
                    isLowEndDevice >>
    /\ UNCHANGED closureVars
    /\ UNCHANGED timeVars

\* isSessionSupported('inline') resolves
ResolveInline ==
    /\ supportCheck = "inline"
    /\ \E inlineSupported \in BOOLEAN :
          /\ arSupported' = IF inlineSupported THEN TRUE ELSE arSupported
          /\ errorMessage' = IF inlineSupported THEN MsgSimplified ELSE errorMessage
    /\ supportCheck' = "done"
    /\ UNCHANGED << arStarted, isLoading, performanceMode, isLowEndDevice >>
    /\ UNCHANGED closureVars
    /\ UNCHANGED timeVars

\* either query rejects: the catch handler
RejectSupport ==
    /\ supportCheck \in {"immersive", "inline"}
    /\ errorMessage' = MsgCheckError
    /\ supportCheck' = "done"
    /\ UNCHANGED << arSupported, arStarted, isLoading, performanceMode,
                    isLowEndDevice >>
    /\ UNCHANGED closureVars
    /\ UNCHANGED timeVars

(* ----------------------------- entry UI ------------------------------- *)

\* faulty variant of selectorShown: the selector stays rendered in a session
selectorShownInSession == errorMessage = ""

\* the entry UI renders the selector and the start button only before start
\* and only when no error message is shown
selectorShown == ~arStarted /\ errorMessage = ""

\* the start button is rendered with the selector and is disabled until
\* arSupported
startEnabled == selectorShown /\ arSupported

\* the performance selector's onChange
SelectMode ==
    /\ selectorShown
    /\ \E m \in Modes : performanceMode' = m
    /\ UNCHANGED << arSupported, arStarted, errorMessage, isLoading,
                    isLowEndDevice, supportCheck >>
    /\ UNCHANGED closureVars
    /\ UNCHANGED timeVars

(* ------------------------------ startAR ------------------------------- *)

\* loadModel(path, index): one loader.load call
loadModel(path, index) ==
    /\ attempts' = Append(attempts, path)
    /\ loadIndex' = index
    /\ loadState' = "pending"

\* faulty variant of startARReturns: the guard is dropped
startARProceedsAlways == FALSE

\* startAR's first line: `if (!arSupported) return`
startARReturns == ~arSupported

\* everything but the stamp of refused startAR calls
startARState == << arSupported, arStarted, errorMessage, isLoading,
                   performanceMode, isLowEndDevice, supportCheck, pc, tier,
                   sessionLowEnd, rendererVars, domVars, reticle, modelVars,
                   loadVars, hitVars, xrActive, fpsVars, selectStamp, starts,
                   timeVars >>

\* startAR past its guard, up to the first await: the invocation captures
\* performanceMode and isLowEndDevice of the render it was created in, and
\* nothing of the new invocation exists yet.  What earlier invocations
\* appended to document.body stays there.
startARBody ==
    /\ isLoading' = TRUE
    /\ arStarted' = TRUE
    /\ pc' = "awaiting"
    /\ tier' = performanceMode
    /\ sessionLowEnd' = isLowEndDevice
    /\ starts' = starts + 1
    /\ startStamp' = 0
    \* nothing of the new invocation exists yet
    /\ directionalLight' = FALSE
    /\ pixelRatio' = 100
    /\ antialias' = FALSE
    /\ animationLoop' = FALSE
    /\ arButtonInBody' = FALSE
    /\ resizeListener' = FALSE
    /\ dracoDisposed' = FALSE
    /\ reticle' = [visible |-> FALSE, matrix |-> Identity]
    /\ model' = NoModel
    /\ modelPlaced' = FALSE
    /\ sceneModels' = 0
    /\ loadState' = "none"
    /\ loadIndex' = 0
    /\ attempts' = << >>
    /\ hitTestSource' = FALSE
    /\ hitTestSourceRequested' = FALSE
    /\ htRequest' = "none"
    /\ endListeners' = 0
    /\ frameCount' = 0
    /\ downgrades' = 0
    /\ UNCHANGED << arSupported, errorMessage, performanceMode,
                    isLowEndDevice, supportCheck, bodyButtons, xrActive,
                    selectStamp >>

\* A call of startAR, the start button's onClick, up to its first await.  The
\* button is rendered only before start with no error message (and is
\* disabled until arSupported).  A call that proceeds captures
\* performanceMode and isLowEndDevice of the render it was created in.
StartAR ==
    /\ selectorShown
    /\ pc = "idle"
    /\ IF startARReturns
       THEN /\ startStamp' = 1 - startStamp
            /\ UNCHANGED startARState
       ELSE startARBody
    /\ UNCHANGED timeVars

\* The start button pressed again after Back or after the session's end
\* listener has brought the entry UI back: a new startAR invocation next to
\* the earlier one, whose XR session is over.
StartAgain ==
    /\ selectorShown
    /\ ~startARReturns
    /\ pc = "running"
    /\ ~xrActive
    /\ starts < MaxStarts
    /\ startARBody
    /\ UNCHANGED timeVars

\* startAR after the 300 ms wait and the imports: the canvas is mounted only
\* while arStarted; without it the catch handler runs, otherwise the whole
\* synchronous set-up up to the return of the clean-up function.
SetupAR ==
    /\ pc = "awaiting"
    /\ IF ~arStarted
       THEN /\ errorMessage' = MsgStartError
            /\ isLoading' = FALSE
            /\ pc' = "failed"
            /\ UNCHANGED << rendererVars, domVars, loadVars, windowVars >>
       ELSE /\ \E dpr \in DevicePixelRatios :
                  pixelRatio' = startPixelRatio(tier, dpr)
            /\ antialias' = (tier # "low")
            /\ directionalLight' = addsDirectionalLight(tier)
            /\ arButtonInBody' = TRUE
            /\ bodyButtons' = bodyButtons + 1
            /\ loadModel(modelPath(sessionLowEnd), 0)
            /\ animationLoop' = TRUE
            /\ resizeListener' = TRUE
            /\ pc' = "running"
            /\ lastTime' = now
            /\ fps' = 0
            /\ UNCHANGED << errorMessage, isLoading, dracoDisposed,
                            policyCalls, policyArg >>
    /\ UNCHANGED << arSupported, arStarted, performanceMode, isLowEndDevice,
                    supportCheck, tier, sessionLowEnd, reticle, modelVars,
                    hitVars, xrActive, fpsVars, quietVars, now, resizeVars >>

\* The function startAR returns (lines 419-428).  The start button's onClick
\* discards startAR's result and no effect registers it, so no action of the
\* component invokes it; it is kept here for reference only.
Cleanup ==
    /\ pc = "running"
    /\ resizeListener' = FALSE
    /\ animationLoop' = FALSE
    /\ arButtonInBody' = FALSE
    /\ bodyButtons' = IF arButtonInBody THEN bodyButtons - 1 ELSE bodyButtons
    /\ dracoDisposed' = TRUE
    /\ UNCHANGED << reactVars, pc, tier, sessionLowEnd, directionalLight,
                    pixelRatio, antialias, reticle, modelVars, loadVars,
                    hitVars, xrActive, fpsVars, quietVars >>
    /\ UNCHANGED timeVars

(* --------------------------- asset loading ---------------------------- *)

\* faulty variant of successState: the success callback leaves a load
\* outstanding (it goes on to the next path as the error callback does)
successStatePending == "pending"

\* the loader chain after the success callback: it issues no loader.load
successState == "loaded"

\* success callback of the pending loader.load
LoadSuccess ==
    /\ loadState = "pending"
    /\ model' = [optimizeModel([NoModel EXCEPT !.loaded = TRUE], tier)
                    EXCEPT !.visible = FALSE]
    /\ sceneModels' = sceneModels + 1
    /\ isLoading' = FALSE
    /\ loadState' = successState
    /\ UNCHANGED << arSupported, arStarted, errorMessage, performanceMode,
                    isLowEndDevice, supportCheck, pc, tier, sessionLowEnd,
                    rendererVars, domVars, reticle, modelPlaced, loadIndex,
                    attempts, hitVars, xrActive, fpsVars, quietVars >>
    /\ UNCHANGED timeVars

\* error callback of the pending loader.load
LoadError ==
    /\ loadState = "pending"
    /\ IF hasFallback(loadIndex)
       THEN /\ loadModel(nextFallback(loadIndex), nextIndex(loadIndex))
            /\ UNCHANGED << errorMessage, isLoading >>
       ELSE /\ errorMessage' = MsgCouldNotLoad
            /\ isLoading' = FALSE
            /\ loadState' = "failed"
            /\ UNCHANGED << loadIndex, attempts >>
    /\ UNCHANGED << arSupported, arStarted, performanceMode, isLowEndDevice,
                    supportCheck, pc, tier, sessionLowEnd, rendererVars,
                    domVars, reticle, modelVars, hitVars, xrActive, fpsVars,
                    quietVars >>
    /\ UNCHANGED timeVars

(* ----------------------------- XR session ----------------------------- *)

\* Click on the injected AR button: the renderer's XR session starts.
EnterXR ==
    /\ pc = "running"
    /\ arButtonInBody
    /\ ~xrActive
    /\ xrActive' = TRUE
    /\ endListeners' = 0
    /\ UNCHANGED << reactVars, pc, tier, sessionLowEnd, rendererVars, domVars,
                    reticle, modelVars, loadVars, hitTestSource,
                    hitTestSourceRequested, htRequest, frameCount, downgrades,
                    quietVars >>
    /\ UNCHANGED timeVars

\* The session's 'end' event: the listener registered by the render loop,
\* when one was registered, runs.
XREnd ==
    /\ xrActive
    /\ xrActive' = FALSE
    /\ IF endListeners > 0
       THEN /\ hitTestSourceRequested' = FALSE
            /\ hitTestSource' = FALSE
            /\ arButtonInBody' = FALSE
            /\ bodyButtons' = IF arButtonInBody THEN bodyButtons - 1 ELSE bodyButtons
            /\ arStarted' = FALSE
       ELSE UNCHANGED << hitTestSourceRequested, hitTestSource, arButtonInBody,
                         bodyButtons, arStarted >>
    /\ UNCHANGED << arSupported, errorMessage, isLoading, performanceMode,
                    isLowEndDevice, supportCheck, pc, tier, sessionLowEnd,
                    rendererVars, resizeListener, dracoDisposed, reticle,
                    modelVars, loadVars, htRequest, endListeners, frameCount,
                    downgrades, quietVars >>
    /\ UNCHANGED timeVars

\* requestReferenceSpace('viewer') resolves: requestHitTestSource is issued
ResolveReferenceSpace ==
    /\ htRequest = "referenceSpace"
    /\ htRequest' = "hitTestSource"
    /\ UNCHANGED << reactVars, pc, tier, sessionLowEnd, rendererVars, domVars,
                    reticle, modelVars, loadVars, hitTestSource,
                    hitTestSourceRequested, endListeners, xrActive, fpsVars,
                    quietVars >>
    /\ UNCHANGED timeVars

\* requestHitTestSource resolves: hitTestSource = source
ResolveHitTestSource ==
    /\ htRequest = "hitTestSource"
    /\ htRequest' = "none"
    /\ hitTestSource' = TRUE
    /\ UNCHANGED << reactVars, pc, tier, sessionLowEnd, rendererVars, domVars,
                    reticle, modelVars, loadVars, hitTestSourceRequested,
                    endListeners, xrActive, fpsVars, quietVars >>
    /\ UNCHANGED timeVars

\* either request rejects (no handler is attached): nothing is installed
RejectHitTestRequest ==
    /\ htRequest # "none"
    /\ htRequest' = "none"
    /\ UNCHANGED << reactVars, pc, tier, sessionLowEnd, rendererVars, domVars,
                    reticle, modelVars, loadVars, hitTestSource,
                    hitTestSourceRequested, endListeners, xrActive, fpsVars,
                    quietVars >>
    /\ UNCHANGED timeVars

(* ---------------------------- render loop ----------------------------- *)

\* One invocation of the setAnimationLoop callback.  `elapsed` says whether
\* now - lastTime >= 1000 at this frame; `hitTestResults` is what
\* frame.getHitTestResults would return.  The frame argument is non-null
\* exactly while the XR session is active.  The sample written to fps and
\* the window start are left to the action that reads the clock.
FrameStep(elapsed, hitTestResults) ==
    LET currentFps == frameCount + 1
        reduce == elapsed /\ shouldReduceQuality(currentFps, tier)
        branch == hitTestBranch(xrActive, tier)
    IN
    /\ animationLoop
    /\ ~elapsed => frameCount < MaxFrameCount
    /\ reduce => downgrades < MaxDowngrades
    /\ frameCount' = IF elapsed THEN 0 ELSE currentFps
    \* updatePerformanceMode(fps)
    /\ IF reduce
       THEN /\ performanceMode' = "low"
            /\ directionalLight' = FALSE
            /\ pixelRatio' = 100
            /\ antialias' = FALSE
            /\ model' = IF model.loaded THEN optimizeModel(model, tier) ELSE model
            /\ downgrades' = downgrades + 1
       ELSE UNCHANGED << performanceMode, directionalLight, pixelRatio,
                         antialias, model, downgrades >>
    \* hit-test source request
    /\ IF branch /\ hitTestRequestDue(hitTestSourceRequested)
       THEN /\ htRequest' = "referenceSpace"
            /\ endListeners' = endListeners + 1
            /\ hitTestSourceRequested' = TRUE
       ELSE UNCHANGED << htRequest, endListeners, hitTestSourceRequested >>
    \* hit-test query
    /\ IF branch /\ hitTestSource
       THEN reticle' = hitTestReticle(reticle, hitTestResults)
       ELSE UNCHANGED reticle
    /\ UNCHANGED << arSupported, arStarted, errorMessage, isLoading,
                    isLowEndDevice, supportCheck, pc, tier, sessionLowEnd,
                    animationLoop, domVars, modelPlaced, sceneModels, loadVars,
                    hitTestSource, xrActive, quietVars >>

\* the hit-test results are read only when the query is made
Frame ==
    /\ \E elapsed \in BOOLEAN :
          IF hitTestBranch(xrActive, tier) /\ hitTestSource
          THEN \E hitTestResults \in HitLists : FrameStep(elapsed, hitTestResults)
          ELSE FrameStep(elapsed, << >>)
    /\ UNCHANGED timeVars

\* faulty variant of windowElapsed: the window must be exceeded
windowElapsedStrict(t, last) == t - last > WindowMs

\* the timing window's test: now - lastTime >= 1000
windowElapsed(t, last) == t - last >= WindowMs

\* time passes
Tick ==
    /\ now < MaxTime
    /\ now' = now + TickMs
    /\ UNCHANGED << reactVars, closureVars, windowVars, resizeVars >>

\* One invocation of the setAnimationLoop callback with the clock it reads:
\* the window test decides `elapsed`, and an elapsed window writes fps and
\* lastTime and calls updatePerformanceMode(fps).
TimedFrame ==
    LET elapsed == windowElapsed(now, lastTime)
    IN
    /\ IF hitTestBranch(xrActive, tier) /\ hitTestSource
       THEN \E hitTestResults \in HitLists : FrameStep(elapsed, hitTestResults)
       ELSE FrameStep(elapsed, << >>)
    /\ lastTime' = IF elapsed THEN now ELSE lastTime
    /\ fps' = IF elapsed THEN frameCount + 1 ELSE fps
    /\ policyCalls' = IF elapsed THEN policyCalls + 1 ELSE policyCalls
    /\ policyArg' = IF elapsed THEN frameCount + 1 ELSE policyArg
    /\ UNCHANGED << now, resizeVars >>

(* ------------------------------ resize -------------------------------- *)

\* faulty variant of armResizeTimer: the pending timer is not cleared
armResizeTimerNoClear(pending, t) == pending \cup {t + ResizeDelayMs}

\* handleResize: clearTimeout(resizeTimeout), then setTimeout(..., 200)
armResizeTimer(pending, t) == {t + ResizeDelayMs}

\* a 'resize' event of the window while handleResize is attached
Resize ==
    /\ resizeListener
    /\ resizeEvents < MaxResizes
    /\ resizeTimeout' = armResizeTimer(resizeTimeout, now)
    /\ resizeEvents' = resizeEvents + 1
    /\ lastResize' = now
    /\ UNCHANGED << reactVars, closureVars, now, windowVars, resizeUpdates >>

\* a pending timer of handleResize is due and its callback runs: the camera
\* aspect and the renderer size are updated
ResizeTimer ==
    /\ \E due \in resizeTimeout :
          /\ now >= due
          /\ resizeTimeout' = resizeTimeout \ {due}
    /\ resizeUpdates' = resizeUpdates + 1
    /\ UNCHANGED << reactVars, closureVars, now, windowVars, resizeEvents,
                    lastResize >>

(* ---------------------------- interaction ----------------------------- *)

\* A 'select' event of controller 0; `controller` is its matrixWorld.
SelectStep(controller) ==
    LET r == onSelect(model, modelPlaced, reticle, tier, controller)
    IN
    /\ pc = "running"
    /\ xrActive
    /\ model' = r.model
    /\ modelPlaced' = r.placed
    /\ selectStamp' = 1 - selectStamp
    /\ UNCHANGED << reactVars, pc, tier, sessionLowEnd, rendererVars, domVars,
                    reticle, sceneModels, loadVars, hitVars, xrActive, fpsVars,
                    startStamp, starts >>
    /\ UNCHANGED timeVars

Select == \E controller \in Poses : SelectStep(controller)

\* the Back button, rendered while arStarted
Back ==
    /\ arStarted
    /\ arStarted' = FALSE
    /\ errorMessage' = ""
    /\ UNCHANGED << arSupported, isLoading, performanceMode, isLowEndDevice,
                    supportCheck >>
    /\ UNCHANGED closureVars
    /\ UNCHANGED timeVars

\* what the user can do on the page: the selector, the start button, the
\* injected AR button, a tap in the session, the Back button
UserAction == SelectMode \/ StartAR \/ EnterXR \/ Select \/ Back

(* ------------------------------- Spec --------------------------------- *)

Next ==
    \/ ResolveImmersive
    \/ ResolveInline
    \/ RejectSupport
    \/ SelectMode
    \/ StartAR
    \/ SetupAR
    \/ LoadSuccess
    \/ LoadError
    \/ EnterXR
    \/ XREnd
    \/ ResolveReferenceSpace
    \/ ResolveHitTestSource
    \/ RejectHitTestRequest
    \/ Frame
    \/ Select
    \/ Back

Spec == Init /\ [][Next]_vars

\* The hit-test path of a session on its own: the steps that write tier,
\* xrActive, hitTestSource or reticle, without model loading, select and
\* Back, none of which writes any of the four.
NextHitTest ==
    \/ ResolveImmersive
    \/ SelectMode
    \/ StartAR
    \/ SetupAR
    \/ EnterXR
    \/ XREnd
    \/ ResolveReferenceSpace
    \/ ResolveHitTestSource
    \/ RejectHitTestRequest
    \/ Frame

SpecHitTest == Init /\ [][NextHitTest]_vars

\* The FPS monitor of a session against the clock: start, set-up, load,
\* the passing of time and the frames that read it.
NextFrameWindow ==
    \/ ResolveImmersive
    \/ SelectMode
    \/ StartAR
    \/ SetupAR
    \/ LoadSuccess
    \/ Tick
    \/ TimedFrame

SpecFrameWindow == Init /\ [][NextFrameWindow]_vars

\* The resize handler of a session against the clock.
NextResize ==
    \/ ResolveImmersive
    \/ StartAR
    \/ SetupAR
    \/ Tick
    \/ Resize
    \/ ResizeTimer

SpecResize == Init /\ [][NextResize]_vars

\* Start and asset loading under the scheduling the host guarantees: the
\* 300 ms timer and the imports of startAR complete, and every loader.load
\* call reports success or failure.
NextLoading ==
    \/ ResolveImmersive
    \/ ResolveInline
    \/ SelectMode
    \/ StartAR
    \/ SetupAR
    \/ LoadSuccess
    \/ LoadError
    \/ Back

SpecLoading ==
    /\ Init
    /\ [][NextLoading]_vars
    /\ WF_vars(SetupAR)
    /\ WF_vars(LoadSuccess \/ LoadError)

\* Sessions started one after another: start, Back or the end of the XR
\* session, and start again, with the frames that register the session's
\* end listener.
NextRestart ==
    \/ ResolveImmersive
    \/ SelectMode
    \/ StartAR
    \/ SetupAR
    \/ EnterXR
    \/ Frame
    \/ XREnd
    \/ Back
    \/ StartAgain

SpecRestart == Init /\ [][NextRestart]_vars

(* ------------------------------ claims -------------------------------- *)

NonLowTiers == {"medium", "high"}

\* the full chain of paths of the invocation: primary, then the fallbacks
Chain == << modelPath(sessionLowEnd) >> \o fallbackPaths

\* C1: with tier medium or high, a select event that arrives while the asset
\* is loaded, unplaced and the reticle is visible places the asset: afterwards
\* it is marked placed, is visible and sits at the reticle's position.
C1_SelectPlacesAtReticle ==
    [][\A c \in Poses :
          (SelectStep(c) /\ tier \in NonLowTiers /\ model.loaded
             /\ ~modelPlaced /\ reticle.visible)
          => (modelPlaced' /\ model'.visible
                /\ model'.position = setFromMatrixPosition(reticle.matrix))]_vars

\* C2: with tier medium or high, a select while placed returns the asset to
\* (unplaced, hidden) and a select while unplaced with a visible reticle
\* places it again, so repeated selects alternate between (placed, visible)
\* and (unplaced, hidden).
C2_PlaceUnplaceAlternates ==
    [][\A c \in Poses :
          (SelectStep(c) /\ tier \in NonLowTiers /\ model.loaded
             /\ (modelPlaced \/ reticle.visible))
          => (modelPlaced' = ~modelPlaced /\ model'.visible = modelPlaced')]_vars

\* C3 as stated: in low tier a select event that arrives while the asset is
\* placed is a no-op: the asset stays marked placed, stays visible and keeps
\* its position.
C3_LowSelectWhilePlacedNoOp ==
    [][\A c \in Poses :
          (SelectStep(c) /\ tier = "low" /\ modelPlaced)
          => (modelPlaced' /\ model'.visible
                /\ model'.position = model.position)]_vars

\* C3 as amended: in low tier a select event that arrives while the asset is
\* placed marks it unplaced and leaves it visible at its position.
C3_LowSelectWhilePlacedUnplaces ==
    [][\A c \in Poses :
          (SelectStep(c) /\ tier = "low" /\ modelPlaced)
          => (~modelPlaced' /\ model'.visible
                /\ model'.position = model.position)]_vars

\* C3 witness: a low-tier asset that was placed and then selected again
C3_Witness ==
    tier = "low" /\ model.loaded /\ model.visible /\ ~modelPlaced

\* C4: in a session started at tier medium or high the FPS-triggered
\* downgrade is performed at most once, however many FPS samples are below
\* the threshold.
C4_DowngradeAtMostOnce ==
    tier \in NonLowTiers => downgrades <= 1

\* C5: while a session is started the tier changes only by the FPS-triggered
\* change to low; in particular it never leaves low.
C5_TierOnlyDowngrades ==
    [][arStarted =>
          \/ performanceMode' = performanceMode
          \/ (performanceMode' = "low" /\ downgrades' = downgrades + 1)]_vars

\* C5 witness: a started session whose tier the FPS policy changed to low
C5_Witness ==
    arStarted /\ tier \in NonLowTiers /\ performanceMode = "low" /\ downgrades > 0

\* C6: load attempts are made one at a time in the order primary, fallbacks
\* in list order; a path is attempted only after the attempt before it has
\* failed, nothing is attempted after a success, and after three failures
\* the third fallback is attempted.
C6_AttemptsInOrder ==
    /\ [](attempts = SubSeq(Chain, 1, Len(attempts)))
    /\ [][starts' = starts =>
            /\ attempts' # attempts =>
                  /\ attempts' = SubSeq(Chain, 1, Len(attempts) + 1)
                  /\ attempts = << >> \/ (loadState = "pending" /\ LoadError)
            /\ (LoadError /\ Len(attempts) < Len(Chain)) =>
                  attempts' = SubSeq(Chain, 1, Len(attempts) + 1)
            /\ loadState = "loaded" =>
                  (attempts' = attempts /\ loadState' = "loaded")]_vars

\* C6 witness: primary and two fallbacks failed, the third fallback loaded
C6_Witness ==
    loadState = "loaded" /\ Len(attempts) = 4 /\ attempts[4] = fallbackPaths[3]

\* C7: when the primary path and every fallback have failed, the error
\* message is stored, the loading flag is cleared, no model is in the scene
\* and no further load attempt is made in the session.
C7_AllFailedIsFinal ==
    /\ [](loadState = "failed" =>
            (attempts = Chain /\ ~model.loaded /\ sceneModels = 0 /\ ~isLoading))
    /\ [][starts' = starts =>
            /\ (LoadError /\ Len(attempts) = Len(Chain)) =>
                  /\ loadState' = "failed"
                  /\ errorMessage' = MsgCouldNotLoad
                  /\ ~isLoading'
            /\ loadState = "failed" =>
                  (attempts' = attempts /\ loadState' = "failed")]_vars

\* C7 witness: the whole chain has failed
C7_Witness ==
    loadState = "failed" /\ errorMessage = MsgCouldNotLoad /\ Len(attempts) = 4

\* C8 as stated: in every frame processed while a hit-test source exists and
\* the frame carries tracking data, an empty result list leaves the reticle
\* invisible and a non-empty one leaves it visible with the transform of the
\* first result's pose.
C8_ReticleFollowsFirstHit ==
    [][(xrActive /\ hitTestSource) =>
          \A e \in BOOLEAN, r \in HitLists :
             FrameStep(e, r)
             => IF Len(r) = 0
                THEN ~reticle'.visible
                ELSE reticle'.visible /\ reticle'.matrix = r[1]]_vars

\* C8 as amended: as stated when the first result has a pose; when it has
\* none, the reticle is left as it was.
C8_ReticleFollowsFirstPose ==
    [][(xrActive /\ hitTestSource) =>
          \A e \in BOOLEAN, r \in HitLists :
             FrameStep(e, r)
             => IF Len(r) = 0
                THEN ~reticle'.visible
                ELSE IF r[1] # NoPose
                THEN reticle'.visible /\ reticle'.matrix = r[1]
                ELSE reticle' = reticle]_vars

\* C8 witness: a hit-test frame has put the reticle on a surface pose
C8_Witness ==
    xrActive /\ hitTestSource /\ reticle.visible /\ reticle.matrix = Pose(2)

\* C9: after the XR session's end event, in every tier, the hit-test source
\* reference is null, the injected AR button is out of the document and the
\* session is shown as not started.
C9_EndReleasesEverything ==
    [][XREnd => (~hitTestSource' /\ ~arButtonInBody' /\ ~arStarted')]_vars

\* C10: after the user leaves a started session with Back, the frame
\* callback is stopped, the injected AR button is out of the document, the
\* resize listener is detached and the decompression helper is released.
C10_BackTearsDown ==
    [][(Back /\ pc = "running")
          => (~animationLoop' /\ ~arButtonInBody' /\ ~resizeListener'
                /\ dracoDisposed')]_vars

\* C11: in every frame in which the current tier is low, whether the session
\* was started at low or was downgraded to low by the FPS policy, the render
\* loop requests no hit-test source and leaves the reticle's visibility and
\* transform unchanged.
C11_LowTierSkipsHitTest ==
    [][(Frame /\ performanceMode = "low")
          => (htRequest' = htRequest
                /\ hitTestSourceRequested' = hitTestSourceRequested
                /\ reticle' = reticle)]_vars

\* C12: no error is final: in every state in which an error message is
\* stored the start control is enabled or the user has an action left to
\* take towards it (without one, no sequence of user actions brings the
\* enabled start control back).
C12_NoErrorIsFinal ==
    errorMessage # "" => (startEnabled \/ ENABLED UserAction)

\* C13: a session is never started unless capability detection has completed
\* with supported = true: nothing of a session exists while arSupported is
\* false, a startAR call made while it is false leaves every piece of state
\* unchanged, and the start control is enabled only once detection has
\* completed with support.
C13_NoStartWithoutSupport ==
    /\ []((arStarted \/ isLoading \/ pc # "idle" \/ bodyButtons > 0)
             => arSupported)
    /\ [](startEnabled => (arSupported /\ supportCheck = "done"))
    /\ [][(StartAR /\ ~arSupported) => UNCHANGED startARState]_vars

\* C13 witness: startAR was called while arSupported was false
C13_Witness ==
    ~arSupported /\ startStamp = 1 /\ ~arStarted /\ ~isLoading /\ pc = "idle"

\* C14: when the capability surface exists but neither an immersive-ar nor an
\* inline session is supported, capability detection ends with a descriptive
\* error message stored.
C14_NeitherSupportedIsError ==
    [][(ResolveInline /\ ~arSupported') => errorMessage' # ""]_vars

\* C15: in any one session, across every sequence of load callbacks, at most
\* one load attempt succeeds and at most one model is ever added to the scene.
C15_AtMostOneModel ==
    /\ [](sceneModels <= 1)
    /\ [][LoadSuccess => (sceneModels = 0 /\ sceneModels' = 1)]_vars

\* C15 witness: the second fallback loaded after two failed attempts
C15_Witness ==
    sceneModels = 1 /\ model.loaded /\ loadState = "loaded" /\ Len(attempts) = 3

\* C16: at session start the primary model path is the lower-detail variant
\* exactly when the session's tier is low, also when the tier was chosen with
\* the performance selector, and the full-detail variant for every other
\* tier.
C16_PrimaryPathFollowsTier ==
    Len(attempts) > 0 =>
        attempts[1] = (IF tier = "low" THEN PathLow ELSE PathFull)

\* C17: when the FPS policy downgrades a session whose asset is already
\* loaded, the asset is re-optimized for the low tier: afterwards its scale
\* is the low-tier scale factor and its meshes carry the basic material.
C17_DowngradeReoptimizesForLow ==
    [][(downgrades' = downgrades + 1 /\ model.loaded)
          => (model'.scale = LowScale /\ model'.material = "basic")]_vars

\* C18 as stated: for every tier and every model size, after a successful
\* asset load the asset's largest bounding dimension equals the tier's scale
\* constant.
C18_LargestDimensionNormalized ==
    [][LoadSuccess => largestDimension(model') = tierScale(tier)]_vars

\* C18 as amended: after a successful asset load the asset's uniform scale
\* factor is the scale constant of the tier the session was started with,
\* whatever the model's size, so its largest bounding dimension is that
\* constant times the model's own largest dimension.
C18_ScaleFactorIsTierConstant ==
    [][LoadSuccess =>
          /\ model'.scale = tierScale(tier)
          /\ largestDimension(model') = (tierScale(tier) * AssetSize) \div 100]_vars

\* C18 witness: an asset loaded in a low-tier session carries the low scale
C18_Witness ==
    loadState = "loaded" /\ tier = "low" /\ model.loaded
        /\ model.scale = LowScale /\ largestDimension(model) # LowScale

\* C19: at the moment an asset load succeeds the asset is invisible and
\* marked unplaced, whatever select events were received before the load
\* completed; a select event received while no asset is loaded changes
\* nothing.
C19_LoadedAssetStartsHidden ==
    /\ [][LoadSuccess => (~model'.visible /\ ~modelPlaced')]_vars
    /\ [][\A c \in Poses :
             (SelectStep(c) /\ ~model.loaded)
             => (model' = model /\ modelPlaced' = modelPlaced)]_vars

\* C19 witness: a select event was received while the load was pending
C19_Witness ==
    selectStamp = 1 /\ loadState = "pending" /\ ~model.loaded /\ ~modelPlaced

\* C20: in low tier, a select event that arrives while the asset is loaded
\* and unplaced places it regardless of the reticle: afterwards the asset is
\* marked placed, is visible, and its position is the fixed offset (one unit
\* in front) transformed by the controller's current transform.  The tier is
\* the session's current one, low from the start or by the FPS downgrade.
C20_LowSelectPlacesInFront ==
    [][\A c \in Poses :
          (SelectStep(c) /\ arStarted /\ performanceMode = "low"
             /\ model.loaded /\ ~modelPlaced)
          => (modelPlaced' /\ model'.visible
                /\ model'.position = applyMatrix4(FrontOffset, c))]_vars

\* C21: every frame callback increments the frame count.  In a frame at which
\* at least 1000 ms have passed since the window start, the FPS sample is the
\* number of frames counted since the previous reset (this frame included),
\* the count is reset to 0, the window start is set to the current time and
\* the quality policy is invoked exactly once with that sample; in every
\* other frame the policy is not invoked and the window start is unchanged.
C21_WindowSamplesOncePerSecond ==
    [][TimedFrame =>
          IF now - lastTime >= 1000
          THEN /\ fps' = frameCount + 1
               /\ frameCount' = 0
               /\ lastTime' = now
               /\ policyCalls' = policyCalls + 1
               /\ policyArg' = frameCount + 1
          ELSE /\ frameCount' = frameCount + 1
               /\ policyCalls' = policyCalls
               /\ lastTime' = lastTime]_vars

\* C21 witness: a window of three frames has ended exactly 1000 ms after its
\* start and the policy was called once with the sample 3
C21_Witness ==
    policyCalls = 1 /\ policyArg = 3 /\ fps = 3 /\ frameCount = 0
        /\ lastTime = now /\ now >= 1000

\* C22: between the start of an AR session and its end event at most one
\* hit-test source request is issued and at most one session-end listener is
\* registered, however many frames are rendered before the request resolves
\* (the request and the listener are made in the same block of the frame
\* callback, so endListeners counts both).
C22_OneHitTestRequest ==
    /\ [](endListeners <= 1)
    /\ [][endListeners' > endListeners
             => (~hitTestSourceRequested /\ htRequest = "none"
                   /\ endListeners' = 1 /\ htRequest' = "referenceSpace")]_vars

\* C22 witness: the request is still pending at the last frame of a window
C22_Witness ==
    xrActive /\ hitTestSourceRequested /\ htRequest = "referenceSpace"
        /\ endListeners = 1 /\ frameCount = MaxFrameCount

\* C23: resize handling is debounced: the camera aspect and the renderer size
\* are updated only when 200 ms have passed since the most recent resize
\* event with no newer event in between, and a burst of events each less
\* than 200 ms after the one before causes one update only, after the last
\* event of the burst (no timer is left pending after the update, and at
\* most one is pending at any time).
C23_ResizeDebounced ==
    /\ [](Cardinality(resizeTimeout) <= 1)
    /\ [][resizeUpdates' # resizeUpdates
             => /\ resizeUpdates' = resizeUpdates + 1
                /\ resizeEvents > 0
                /\ now - lastResize >= 200
                /\ resizeTimeout' = {}]_vars

\* C23 witness: two resize events 100 ms apart were followed by one update
C23_Witness ==
    resizeEvents = 2 /\ resizeUpdates = 1 /\ resizeTimeout = {}
        /\ lastResize = 100

\* C24: in every state of a started session the scene contains a directional
\* light only if the current tier is not low: none is added when the session
\* starts at low tier, and the light is removed in the same step in which
\* the FPS policy changes the tier to low.
C24_LightOnlyAboveLow ==
    /\ []((arStarted /\ directionalLight) => performanceMode # "low")
    /\ [][(SetupAR /\ tier = "low") => ~directionalLight']_vars
    /\ [][(arStarted /\ performanceMode # "low" /\ performanceMode' = "low")
             => ~directionalLight']_vars

\* C24 witness: the FPS policy has taken the light out of a medium session
C24_Witness ==
    arStarted /\ pc = "running" /\ tier = "medium" /\ performanceMode = "low"
        /\ ~directionalLight /\ downgrades = 1

\* C25: assuming every load attempt eventually reports success or failure,
\* every started session eventually leaves the loading state (loading flag
\* false), after at most four load attempts (the primary path plus three
\* fallbacks).
C25_LoadingEnds ==
    /\ [](Len(attempts) <= 4)
    /\ (isLoading ~> ~isLoading)

\* C25 witness: a started session has left the loading state at its fourth
\* attempt
C25_Witness ==
    starts = 1 /\ ~isLoading /\ Len(attempts) = 4
        /\ loadState \in {"loaded", "failed"}

\* C26: in every reachable state, for every tier and after any sequence of
\* select events, frames and downgrades: if the asset is marked placed then
\* an asset is loaded and it is visible.
C26_PlacedIsLoadedAndVisible ==
    modelPlaced => (model.loaded /\ model.visible)

\* C26 witness: in a session started at low, frames have run and a select
\* event has placed the loaded asset, which is visible
C26_Witness ==
    /\ modelPlaced /\ model.loaded /\ model.visible
    /\ tier = "low" /\ xrActive /\ frameCount > 0

\* C27: if the AR session ends while the hit-test source request (the
\* reference-space request followed by the hit-test-source request) is still
\* pending, its later resolution does not install a hit-test source: the
\* hit-test source reference stays null after the session end event.
C27_NoSourceAfterSessionEnd ==
    [][(~xrActive /\ ~hitTestSource) => ~hitTestSource']_vars

\* C28: whenever a session is started, the tier value that the session start
\* uses to choose rendering parameters, lighting and hit-testing is one of
\* low, medium or high; the selector value 'auto' is never used as a tier
\* itself.
C28_StartTierIsConcrete ==
    pc # "idle" => tier \in {"low", "medium", "high"}

\* C29: when an 'immersive-ar' session is not supported but an 'inline'
\* session is, capability detection ends with supported = true and the user
\* can start a session: the enabled start control is presented to the user.
C29_InlineFallbackCanStart ==
    [][(supportCheck = "inline" /\ arSupported')
          => (supportCheck' = "done" /\ startEnabled')]_vars

\* C30: after any sequence of start, back, session-end and start-again
\* actions, the document contains at most one injected AR entry control.
C30_AtMostOneARButton ==
    bodyButtons <= 1

\* C31: within one session no model path is requested more than once: every
\* load attempt of the fallback chain targets a path that has not been
\* attempted before in that session.
C31_NoPathRequestedTwice ==
    \A i, j \in 1..Len(attempts) : i # j => attempts[i] # attempts[j]

=============================================================================
